---- MODULE Spec2Model ----
(***************************************************************************)
(* regmsg command-line client (src/bin/cli/main.rs).                        *)
(*                                                                         *)
(* One process invocation: parse the command line, initialise logging,     *)
(* open a ZeroMQ REQ socket, connect, encode the request, send it, block   *)
(* on the reply, decode frame 0 as UTF-8 and print it.                     *)
(*                                                                         *)
(* Text is a sequence of one-character strings; a frame is a sequence of   *)
(* bytes (0..255); a reply envelope is a sequence of frames.               *)
(***************************************************************************)
EXTENDS Integers, Sequences, FiniteSets, TLC

VARIABLES
    cli,        \* the parsed command line (struct Cli)
    pc,         \* position of the single task in main / handle_command
    loggers,    \* sinks handed to CombinedLogger::init, in order
    socket,     \* "none" until ReqSocket::new(), then "open"
    connectRes, \* outcome of socket.connect: "none", "ok", "err"
    sendRes,    \* outcome of socket.send: "none", "ok", "err"
    cmd,        \* the request string built by build_command_string
    wire,       \* requests the transport accepted, in order
    net,        \* what the transport holds for the pending recv
    inbound,    \* the reply envelope held by the transport, if any
    reply,      \* the envelope returned by socket.recv(), if any
    reply_str,  \* the decoded first frame, once decoded
    stdout,     \* lines printed with println!
    stderr,     \* errors shown on the error stream
    exit_code,  \* process exit status, -1 while running
    ops         \* history of logging/socket operations, in call order

vars == <<cli, pc, loggers, socket, connectRes, sendRes, cmd, wire, net,
          inbound, reply, reply_str, stdout, stderr, exit_code, ops>>

----------------------------------------------------------------------------
(* Bounds                                                                  *)

MaxArgs == 2
MaxFrames == 2
MaxReplyBytes == 3

SeqsUpTo(S, n) == UNION {[1..k -> S] : k \in 0..n}

----------------------------------------------------------------------------
(* enum Commands: variant names, spelled as in the source                  *)

ListModes == <<"L","i","s","t","M","o","d","e","s">>
ListOutputs == <<"L","i","s","t","O","u","t","p","u","t","s">>
CurrentMode == <<"C","u","r","r","e","n","t","M","o","d","e">>
CurrentOutput == <<"C","u","r","r","e","n","t","O","u","t","p","u","t">>
CurrentResolution ==
    <<"C","u","r","r","e","n","t","R","e","s","o","l","u","t","i","o","n">>
CurrentRotation ==
    <<"C","u","r","r","e","n","t","R","o","t","a","t","i","o","n">>
CurrentRefresh == <<"C","u","r","r","e","n","t","R","e","f","r","e","s","h">>
CurrentBackend == <<"C","u","r","r","e","n","t","B","a","c","k","e","n","d">>
SetMode == <<"S","e","t","M","o","d","e">>
SetOutput == <<"S","e","t","O","u","t","p","u","t">>
SetRotation == <<"S","e","t","R","o","t","a","t","i","o","n">>
GetScreenshot == <<"G","e","t","S","c","r","e","e","n","s","h","o","t">>
MapTouchScreen == <<"M","a","p","T","o","u","c","h","S","c","r","e","e","n">>
MinToMaxResolution ==
    <<"M","i","n","T","o","M","a","x","R","e","s","o","l","u","t","i","o","n">>

NullaryVariants ==
    {ListModes, ListOutputs, CurrentMode, CurrentOutput, CurrentResolution,
     CurrentRotation, CurrentRefresh, CurrentBackend, GetScreenshot,
     MapTouchScreen, MinToMaxResolution}

PayloadVariants == {SetMode, SetOutput, SetRotation}

\* value_parser = ["0", "90", "180", "270"]
RotationValues == {<<"0">>, <<"9","0">>, <<"1","8","0">>, <<"2","7","0">>}

\* free-form payloads: empty, a plain token, a value holding a space
FreeValues == {<< >>, <<"8","x","6">>, <<"a"," ","b">>}

NoPayload == <<"<none>">>

Commands ==
    [tag : NullaryVariants, payload : {NoPayload}]
    \cup [tag : {SetMode, SetOutput}, payload : FreeValues]
    \cup [tag : {SetRotation}, payload : RotationValues]

None == [some |-> FALSE]
Some(v) == [some |-> TRUE, val |-> v]

ScreenValues == {<<"H","1">>, << >>}
ArgTokens == {<<"-","v">>, <<"2">>, << >>}

Screens == {None} \cup {Some(s) : s \in ScreenValues}

Cli ==
    [command : Commands, screen : Screens, log : BOOLEAN,
     args : SeqsUpTo(ArgTokens, MaxArgs)]

----------------------------------------------------------------------------
(* build_command_string                                                    *)

\* the keyword each match arm starts from
Keyword(tag) ==
    CASE tag = ListModes -> <<"l","i","s","t","M","o","d","e","s">>
      [] tag = ListOutputs -> <<"l","i","s","t","O","u","t","p","u","t","s">>
      [] tag = CurrentMode -> <<"c","u","r","r","e","n","t","M","o","d","e">>
      [] tag = CurrentOutput ->
            <<"c","u","r","r","e","n","t","O","u","t","p","u","t">>
      [] tag = CurrentResolution ->
            <<"c","u","r","r","e","n","t","R","e","s","o","l","u","t","i","o","n">>
      [] tag = CurrentRotation ->
            <<"c","u","r","r","e","n","t","R","o","t","a","t","i","o","n">>
      [] tag = CurrentRefresh ->
            <<"c","u","r","r","e","n","t","R","e","f","r","e","s","h">>
      [] tag = CurrentBackend ->
            <<"c","u","r","r","e","n","t","B","a","c","k","e","n","d">>
      [] tag = SetMode -> <<"s","e","t","M","o","d","e">>
      [] tag = SetOutput -> <<"s","e","t","O","u","t","p","u","t">>
      [] tag = SetRotation -> <<"s","e","t","R","o","t","a","t","i","o","n">>
      [] tag = GetScreenshot ->
            <<"g","e","t","S","c","r","e","e","n","s","h","o","t">>
      [] tag = MapTouchScreen ->
            <<"m","a","p","T","o","u","c","h","S","c","r","e","e","n">>
      [] tag = MinToMaxResolution ->
            <<"m","i","n","T","o","M","a","x","R","e","s","o","l","u","t","i","o","n">>

\* the match on cli.command: to_string() for nullary arms, format!("kw {}", v)
\* for the three payload arms
MatchCommand(command) ==
    IF command.tag \in PayloadVariants
    THEN Keyword(command.tag) \o <<" ">> \o command.payload
    ELSE Keyword(command.tag)

\* [String]::join(sep): the separator goes between consecutive elements
RECURSIVE Join(_, _)
Join(strs, sep) ==
    IF Len(strs) = 0 THEN << >>
    ELSE IF Len(strs) = 1 THEN strs[1]
    ELSE strs[1] \o sep \o Join(Tail(strs), sep)

\* if let Some(screen) = &cli.screen { cmd.push_str(&format!(" --screen {}", screen)) }
PushScreen(s, screen) ==
    IF screen.some
    THEN s \o <<" ","-","-","s","c","r","e","e","n"," ">> \o screen.val
    ELSE s

\* variant: the emptiness test on cli.args is missing
PushArgsAlways(s, args) == s \o <<" ">> \o Join(args, <<" ">>)

\* if !cli.args.is_empty() { cmd.push(' '); cmd.push_str(&cli.args.join(" ")) }
PushArgs(s, args) ==
    IF Len(args) # 0 THEN s \o <<" ">> \o Join(args, <<" ">>) ELSE s

build_command_string(c) ==
    PushArgs(PushScreen(MatchCommand(c.command), c.screen), c.args)

----------------------------------------------------------------------------
(* Reply envelopes and String::from_utf8                                   *)

\* 'A', and the two bytes of U+00E9; 195 alone and 169 alone are ill-formed
Bytes == {65, 195, 169}

\* envelopes of at most k frames holding at most b bytes in all
RECURSIVE Envelopes(_, _)
Envelopes(k, b) ==
    IF k = 0 THEN {<< >>}
    ELSE {<< >>} \cup
         UNION {{<<f>> \o r : r \in Envelopes(k - 1, b - Len(f))} :
                f \in SeqsUpTo(Bytes, b)}

Replies == Envelopes(MaxFrames, MaxReplyBytes)

Cont(b) == b >= 128 /\ b <= 191

\* number of bytes of the well-formed sequence starting at position i,
\* 0 when none starts there (the ranges core::str::from_utf8 accepts)
Utf8Width(bs, i) ==
    LET b0 == bs[i]
        n == Len(bs)
        at(k) == bs[i + k]
    IN  IF b0 < 128 THEN 1
        ELSE IF b0 >= 194 /\ b0 <= 223
             THEN IF i + 1 <= n /\ Cont(at(1)) THEN 2 ELSE 0
        ELSE IF b0 >= 224 /\ b0 <= 239
             THEN IF i + 2 <= n /\ Cont(at(2))
                     /\ (CASE b0 = 224 -> at(1) >= 160 /\ at(1) <= 191
                           [] b0 = 237 -> at(1) >= 128 /\ at(1) <= 159
                           [] OTHER -> Cont(at(1)))
                  THEN 3 ELSE 0
        ELSE IF b0 >= 240 /\ b0 <= 244
             THEN IF i + 3 <= n /\ Cont(at(2)) /\ Cont(at(3))
                     /\ (CASE b0 = 240 -> at(1) >= 144 /\ at(1) <= 191
                           [] b0 = 244 -> at(1) >= 128 /\ at(1) <= 143
                           [] OTHER -> Cont(at(1)))
                  THEN 4 ELSE 0
        ELSE 0

RECURSIVE ValidUtf8From(_, _)
ValidUtf8From(bs, i) ==
    IF i > Len(bs) THEN TRUE
    ELSE LET w == Utf8Width(bs, i)
         IN  w # 0 /\ ValidUtf8From(bs, i + w)

\* String::from_utf8(frame.to_vec()): Ok keeps the bytes, Err is a
\* FromUtf8Error
FromUtf8(bs) ==
    IF ValidUtf8From(bs, 1) THEN [ok |-> TRUE, val |-> bs] ELSE [ok |-> FALSE]

\* variant: the last frame is read instead of the first
GetLast(r) == IF Len(r) > 0 THEN Some(r[Len(r)]) ELSE None

\* reply.get(0)
Get0(r) == IF Len(r) > 0 THEN Some(r[1]) ELSE None

\* variant: an ill-formed first frame is swallowed as the empty string
DecodeLenient(r) ==
    LET f == Get0(r)
    IN  IF f.some /\ FromUtf8(f.val).ok THEN FromUtf8(f.val)
        ELSE [ok |-> TRUE, val |-> << >>]

\* variant: an envelope without frames is a decoding error
DecodeStrictEmpty(r) ==
    LET f == Get0(r)
    IN  IF f.some THEN FromUtf8(f.val) ELSE [ok |-> FALSE]

\* match reply.get(0) { Some(frame) => String::from_utf8(frame.to_vec())?,
\*                      None => String::new() }
DecodeReply(r) ==
    LET f == Get0(r)
    IN  IF f.some THEN FromUtf8(f.val) ELSE [ok |-> TRUE, val |-> << >>]

\* println!("{}", s): the text followed by a line feed
Println(s) == s \o <<10>>

----------------------------------------------------------------------------
(* The invocation                                                          *)

NoCmd == <<"<no cmd>">>

Running == -1

\* the command lines the exchange is explored with
RunClis ==
    {[command |-> [tag |-> ListModes, payload |-> NoPayload],
      screen |-> None, log |-> FALSE, args |-> << >>],
     [command |-> [tag |-> SetRotation, payload |-> <<"9","0">>],
      screen |-> Some(<<"H","1">>), log |-> TRUE, args |-> <<<<"-","v">>>>]}

Start(c, at) ==
    /\ cli = c
    /\ pc = at
    /\ loggers = << >>
    /\ socket = "none"
    /\ connectRes = "none"
    /\ sendRes = "none"
    /\ cmd = NoCmd
    /\ wire = << >>
    /\ net = "quiet"
    /\ inbound = None
    /\ reply = None
    /\ reply_str = None
    /\ stdout = << >>
    /\ stderr = << >>
    /\ exit_code = Running
    /\ ops = << >>

\* main after Cli::parse() has returned
Init == \E c \in RunClis : Start(c, "init_logging")

\* main returns Err(e): the runtime reports it on the error stream and the
\* process exits with status 1
MainReturnsErr(kind) ==
    /\ stderr' = Append(stderr, [kind |-> kind, by |-> "main returned Err"])
    /\ exit_code' = 1
    /\ pc' = "exited"

\* if let Err(e) = handle_command(..) { eprintln!("Error: {e}"); exit(1) }
HandleCommandErr(kind) ==
    /\ stderr' = Append(stderr, [kind |-> kind, by |-> "eprintln"])
    /\ exit_code' = 1
    /\ pc' = "exited"

\* variant: the result of init_logging is dropped
AfterLoggingFailureIgnored(kind) ==
    /\ stderr' = stderr
    /\ exit_code' = exit_code
    /\ pc' = "socket_new"

\* init_logging(cli.log)?
InitLoggingFailed(kind) == MainReturnsErr(kind)

\* create_file_logger()? fails: the log file cannot be opened
InitLoggingOpenFails ==
    /\ pc = "init_logging"
    /\ ops' = Append(ops, "init_logging")
    /\ InitLoggingFailed("IoError")
    /\ UNCHANGED <<cli, loggers, socket, connectRes, sendRes, cmd, wire, net,
                   inbound, reply, reply_str, stdout>>

\* the sinks init_logging collects
Sinks(enable_terminal) ==
    IF enable_terminal THEN <<"file", "terminal">> ELSE <<"file">>

\* CombinedLogger::init(loggers) fails: a logger is already installed
InitLoggingInstallFails ==
    /\ pc = "init_logging"
    /\ ops' = Append(ops, "init_logging")
    /\ InitLoggingFailed("LogError")
    /\ UNCHANGED <<cli, loggers, socket, connectRes, sendRes, cmd, wire, net,
                   inbound, reply, reply_str, stdout>>

InitLoggingOk ==
    /\ pc = "init_logging"
    /\ ops' = Append(ops, "init_logging")
    /\ loggers' = Sinks(cli.log)
    /\ pc' = "socket_new"
    /\ UNCHANGED <<cli, socket, connectRes, sendRes, cmd, wire, net, inbound,
                   reply, reply_str, stdout, stderr, exit_code>>

\* let mut socket = ReqSocket::new();
SocketNew ==
    /\ pc = "socket_new"
    /\ socket' = "open"
    /\ ops' = Append(ops, "new")
    /\ pc' = "connect"
    /\ UNCHANGED <<cli, loggers, connectRes, sendRes, cmd, wire, net, inbound,
                   reply, reply_str, stdout, stderr, exit_code>>

\* variant: a failed connect is attempted again
AfterConnectRetry(res) ==
    /\ UNCHANGED <<stderr, exit_code>>
    /\ pc' = IF res = "ok" THEN "build" ELSE "connect"

\* let _ = socket.connect(DAEMON_SOCKET_PATH).await;  -- the result is dropped
AfterConnect(res) == UNCHANGED <<stderr, exit_code>> /\ pc' = "build"

Connect(res) ==
    /\ pc = "connect"
    /\ connectRes' = res
    /\ ops' = Append(ops, "connect")
    /\ AfterConnect(res)
    /\ UNCHANGED <<cli, loggers, socket, sendRes, cmd, wire, net, inbound,
                   reply, reply_str, stdout>>

ConnectOk == Connect("ok")
ConnectFails == Connect("err")

\* handle_command: let cmd = build_command_string(cli);
BuildCommand ==
    /\ pc = "build"
    /\ cmd' = build_command_string(cli)
    /\ pc' = "send"
    /\ UNCHANGED <<cli, loggers, socket, connectRes, sendRes, wire, net,
                   inbound, reply, reply_str, stdout, stderr, exit_code, ops>>

\* variant: a failed send is propagated
AfterSendFailFast(res) ==
    IF res = "ok" THEN UNCHANGED <<stderr, exit_code>> /\ pc' = "recv"
    ELSE HandleCommandErr("SocketError")

\* let _ = socket.send(ZmqMessage::from(cmd)).await;  -- the result is dropped
AfterSend(res) == UNCHANGED <<stderr, exit_code>> /\ pc' = "recv"

Send(res) ==
    /\ pc = "send"
    /\ sendRes' = res
    /\ wire' = IF res = "ok" THEN Append(wire, cmd) ELSE wire
    /\ ops' = Append(ops, "send")
    /\ AfterSend(res)
    /\ UNCHANGED <<cli, loggers, socket, connectRes, cmd, net, inbound, reply,
                   reply_str, stdout>>

SendOk == Send("ok")
SendFails == Send("err")

\* socket.recv() is called and the task suspends on it
RecvCall ==
    /\ pc = "recv"
    /\ ops' = Append(ops, "recv")
    /\ pc' = "awaiting"
    /\ UNCHANGED <<cli, loggers, socket, connectRes, sendRes, cmd, wire, net,
                   inbound, reply, reply_str, stdout, stderr, exit_code>>

\* the transport hands a reply envelope to the suspended recv
DaemonReplies ==
    /\ pc = "awaiting"
    /\ net = "quiet"
    /\ \E r \in Replies : inbound' = Some(r)
    /\ net' = "reply"
    /\ UNCHANGED <<cli, pc, loggers, socket, connectRes, sendRes, cmd, wire,
                   reply, reply_str, stdout, stderr, exit_code, ops>>

\* the transport fails the suspended recv
TransportFails ==
    /\ pc = "awaiting"
    /\ net = "quiet"
    /\ net' = "error"
    /\ UNCHANGED <<cli, pc, loggers, socket, connectRes, sendRes, cmd, wire,
                   inbound, reply, reply_str, stdout, stderr, exit_code, ops>>

\* variant: the receive gives up while nothing has arrived
RecvErrOrTimeout == net \in {"error", "quiet"}

\* socket.recv().await is Err(e)
RecvErr == net = "error"

\* socket.recv().await is Ok(reply)
RecvOk == net = "reply"

\* let reply = socket.recv().await?;  -- Ok
RecvReturns ==
    /\ pc = "awaiting"
    /\ RecvOk
    /\ reply' = inbound
    /\ inbound' = None
    /\ net' = "taken"
    /\ pc' = "decode"
    /\ UNCHANGED <<cli, loggers, socket, connectRes, sendRes, cmd, wire,
                   reply_str, stdout, stderr, exit_code, ops>>

\* let reply = socket.recv().await?;  -- Err, reported by main
RecvFails ==
    /\ pc = "awaiting"
    /\ RecvErr
    /\ HandleCommandErr("SocketError")
    /\ UNCHANGED <<cli, loggers, socket, connectRes, sendRes, cmd, wire, net,
                   inbound, reply, reply_str, stdout, ops>>

\* let reply_str = match reply.get(0) { .. };  -- a string is produced
DecodeOk ==
    /\ pc = "decode"
    /\ DecodeReply(reply.val).ok
    /\ reply_str' = Some(DecodeReply(reply.val).val)
    /\ pc' = "print"
    /\ UNCHANGED <<cli, loggers, socket, connectRes, sendRes, cmd, wire, net,
                   inbound, reply, stdout, stderr, exit_code, ops>>

\* String::from_utf8(..)? is Err, reported by main
DecodeFails ==
    /\ pc = "decode"
    /\ ~DecodeReply(reply.val).ok
    /\ HandleCommandErr("Utf8Error")
    /\ UNCHANGED <<cli, loggers, socket, connectRes, sendRes, cmd, wire, net,
                   inbound, reply, reply_str, stdout, ops>>

\* println!("{}", reply_str); Ok(()) -- main returns Ok(())
PrintReply ==
    /\ pc = "print"
    /\ stdout' = Append(stdout, Println(reply_str.val))
    /\ exit_code' = 0
    /\ pc' = "exited"
    /\ UNCHANGED <<cli, loggers, socket, connectRes, sendRes, cmd, wire, net,
                   inbound, reply, reply_str, stderr, ops>>

Next ==
    \/ InitLoggingOpenFails
    \/ InitLoggingInstallFails
    \/ InitLoggingOk
    \/ SocketNew
    \/ ConnectOk
    \/ ConnectFails
    \/ BuildCommand
    \/ SendOk
    \/ SendFails
    \/ RecvCall
    \/ DaemonReplies
    \/ TransportFails
    \/ RecvReturns
    \/ RecvFails
    \/ DecodeOk
    \/ DecodeFails
    \/ PrintReply

Spec == Init /\ [][Next]_vars

\* once recv is ready the runtime resumes the task, and the code after it is
\* straight-line; the daemon and the transport are under no obligation
Resume == RecvReturns \/ RecvFails \/ DecodeOk \/ DecodeFails \/ PrintReply

FairSpec == Init /\ [][Next]_vars /\ WF_vars(Resume)

----------------------------------------------------------------------------
(* The encoder on its own, over every command line of the bounded set      *)

InitEnc == \E c \in Cli : Start(c, "encode")

Encode ==
    /\ pc = "encode"
    /\ cmd' = build_command_string(cli)
    /\ pc' = "encoded"
    /\ UNCHANGED <<cli, loggers, socket, connectRes, sendRes, wire, net,
                   inbound, reply, reply_str, stdout, stderr, exit_code, ops>>

NextEnc == Encode

SpecEnc == InitEnc /\ [][NextEnc]_vars

----------------------------------------------------------------------------
(* Properties                                                              *)

SocketOpNames == {"new", "connect", "send", "recv"}
IsSocketOp(o) == o \in SocketOpNames
SocketOps == SelectSeq(ops, IsSocketOp)
Called(o) == \E i \in 1..Len(ops) : ops[i] = o

Lower(c) ==
    CASE c = "L" -> "l" [] c = "C" -> "c" [] c = "S" -> "s"
      [] c = "G" -> "g" [] c = "M" -> "m"

\* the variant's name in lowerCamelCase
CamelKeyword(tag) == <<Lower(Head(tag))>> \o Tail(tag)

\* every argument preceded by exactly one space, in order
RECURSIVE SpacedArgs(_)
SpacedArgs(args) ==
    IF args = << >> THEN << >>
    ELSE <<" ">> \o Head(args) \o SpacedArgs(Tail(args))

\* C1: the request is the keyword, then (payload variants only) a space and
\* the payload verbatim, then (screen present only) " --screen " and the
\* identifier verbatim, then (arguments present only) each argument after one
\* space, in order, and nothing else; a nullary command with no screen and no
\* arguments is the bare keyword, with no trailing space.
C1_RequestGrammar ==
    pc = "encoded" =>
        LET c == cli.command
            payloadPart ==
                IF c.tag \in PayloadVariants THEN <<" ">> \o c.payload
                ELSE << >>
            screenPart ==
                IF cli.screen.some
                THEN <<" ","-","-","s","c","r","e","e","n"," ">>
                     \o cli.screen.val
                ELSE << >>
        IN  /\ cmd = CamelKeyword(c.tag) \o payloadPart \o screenPart
                     \o SpacedArgs(cli.args)
            /\ (c.tag \in NullaryVariants /\ ~cli.screen.some
                /\ cli.args = << >>)
               => (cmd = CamelKeyword(c.tag) /\ cmd[Len(cmd)] # " ")

C1_Witness ==
    /\ pc = "encoded"
    /\ cli.command.tag = SetMode
    /\ cli.command.payload = <<"a"," ","b">>
    /\ cli.screen.some
    /\ Len(cli.args) = 2
    /\ cli.args[1] # cli.args[2]

\* C2: the socket is opened once and sees at most one connect, one send and
\* one receive, in that order: the socket operations of a run are a prefix of
\* new, connect, send, recv, whatever failed on the way.
C2_OneRoundTrip ==
    /\ \E k \in 0..4 : SocketOps = SubSeq(<<"new", "connect", "send", "recv">>, 1, k)
    /\ Len(wire) <= 1
    /\ (socket = "open") = Called("new")

C2_Witness ==
    /\ pc = "exited"
    /\ connectRes = "err"
    /\ sendRes = "err"
    /\ SocketOps = <<"new", "connect", "send", "recv">>

\* C3: a failed connect ends the invocation with an error shown to the
\* operator, and the client does not go on as if connected.
C3_ConnectFailureEnds ==
    connectRes = "err" =>
        /\ pc = "exited"
        /\ exit_code = 1
        /\ stderr # << >>
        /\ ~Called("send")

\* C4: a failed connect and a failed send are both dropped: neither ends the
\* invocation nor reports an error, the send and the receive are still
\* attempted, and an error is reported only when the receive or the decoding
\* fails.
C4_FailuresDiscarded ==
    /\ (connectRes = "err" /\ pc \in {"build", "send"}) =>
            (stderr = << >> /\ exit_code = Running)
    /\ (sendRes = "err" /\ pc \in {"recv", "awaiting"}) =>
            (stderr = << >> /\ exit_code = Running)
    /\ (pc = "exited" /\ (connectRes = "err" \/ sendRes = "err")) =>
            (Called("send") /\ Called("recv") /\ cmd = build_command_string(cli))
    /\ (connectRes # "none" /\ stderr # << >>) =>
            \/ net = "error" /\ stderr = <<[kind |-> "SocketError", by |-> "eprintln"]>>
            \/ /\ reply.some /\ ~DecodeReply(reply.val).ok
               /\ stderr = <<[kind |-> "Utf8Error", by |-> "eprintln"]>>

C4_Witness ==
    /\ pc = "awaiting"
    /\ connectRes = "err"
    /\ sendRes = "err"
    /\ stderr = << >>

LoggingFailed ==
    /\ stderr # << >>
    /\ stderr[1].kind \in {"IoError", "LogError"}

RECURSIVE Texts(_)
Texts(n) ==
    IF n = 0 THEN {<< >>}
    ELSE LET shorter == Texts(n - 1)
         IN  shorter \cup {t \o u : t \in shorter, u \in {<<65>>, <<195, 169>>}}

IsText(bs) == bs \in Texts(Len(bs))

Utf8Reported == <<[kind |-> "Utf8Error", by |-> "eprintln"]>>

\* C6: a received envelope with zero frames decodes to the empty string and
\* never to a decoding error: the empty line is printed and the invocation
\* ends with status 0.
C6_EmptyEnvelope ==
    (reply.some /\ Len(reply.val) = 0) =>
        /\ pc \in {"decode", "print", "exited"}
        /\ stderr = << >>
        /\ pc \in {"print", "exited"} => reply_str = Some(<< >>)
        /\ pc = "exited" => (stdout = <<Println(<< >>)>> /\ exit_code = 0)

C6_Witness ==
    /\ pc = "exited"
    /\ reply = Some(<< >>)
    /\ stdout = <<<<10>>>>
    /\ exit_code = 0

\* C7: a received reply whose first frame is not well-formed UTF-8 ends the
\* invocation with a UTF-8 error on the error stream, nothing on standard
\* output, and a non-zero exit status.
C7_InvalidFirstFrame ==
    (reply.some /\ Len(reply.val) > 0 /\ ~IsText(reply.val[1])) =>
        /\ pc \in {"decode", "exited"}
        /\ stdout = << >>
        /\ reply_str = None
        /\ pc = "exited" => (stderr = Utf8Reported /\ exit_code # 0)

C7_Witness ==
    /\ pc = "exited"
    /\ reply.some
    /\ Len(reply.val) = 2
    /\ reply.val[1] = <<195>>
    /\ IsText(reply.val[2])
    /\ stderr = Utf8Reported
    /\ exit_code = 1

\* C8: the suspended receive is left only when a reply or a transport error
\* has arrived (there is no timeout or cancellation step), and once one has
\* arrived the invocation terminates.
C8_AwaitingReply ==
    /\ [][(pc = "awaiting" /\ pc' # "awaiting") =>
            \/ net = "reply" /\ pc' = "decode"
            \/ net = "error" /\ pc' = "exited"]_vars
    /\ [][(pc = "awaiting" /\ net = "quiet") =>
            (pc' = "awaiting" /\ exit_code' = Running)]_vars
    /\ ((pc = "awaiting" /\ net # "quiet") ~> pc = "exited")

C8_Witness ==
    /\ pc = "exited"
    /\ Called("recv")
    /\ net = "error"
    /\ exit_code = 1

\* C9: the outcome is a function of frame 0 alone: whatever frames follow,
\* a well-formed first frame is printed unmodified (as one line) with status
\* 0, and an ill-formed one prints nothing and ends with status 1.
C9_FirstFrameOnly ==
    (pc = "exited" /\ reply.some /\ Len(reply.val) > 0) =>
        LET frame0 == reply.val[1]
        IN  IF IsText(frame0)
            THEN stdout = <<frame0 \o <<10>>>> /\ stderr = << >> /\ exit_code = 0
            ELSE stdout = << >> /\ stderr = Utf8Reported /\ exit_code = 1

C9_Witness ==
    /\ pc = "exited"
    /\ reply.some
    /\ Len(reply.val) = 2
    /\ reply.val[1] = <<195, 169>>
    /\ ~IsText(reply.val[2])
    /\ stdout = <<<<195, 169, 10>>>>
    /\ exit_code = 0

\* C10: no socket is created and no connect, send or receive happens before
\* init_logging has returned Ok, and when init_logging fails the invocation
\* ends with an error and no socket operation at all.
C10_LoggingFirst ==
    /\ (socket # "none" \/ SocketOps # << >>) =>
            (ops[1] = "init_logging" /\ loggers = Sinks(cli.log))
    /\ LoggingFailed =>
            /\ pc = "exited"
            /\ exit_code # 0
            /\ socket = "none"
            /\ ops = <<"init_logging">>
    /\ (pc = "exited" /\ loggers = << >>) => LoggingFailed

C10_Witness ==
    /\ pc = "exited"
    /\ stderr = <<[kind |-> "IoError", by |-> "main returned Err"]>>
    /\ socket = "none"

====
